---------------------------- MODULE Spec2Model ----------------------------
(***************************************************************************)
(* A model of inferno's collapser for the output of `sample` on macOS      *)
(* (src/collapse/sample.rs).  Text is modelled at the character level: a   *)
(* string is a sequence of one-character strings, a line is a string       *)
(* without its line terminator, and an input is a sequence of lines.       *)
(***************************************************************************)
EXTENDS Integers, Sequences, FiniteSets, TLC

(***************************************************************************)
(* Bounds of the model.                                                    *)
(***************************************************************************)
\* Data lines after the start marker in a generated call-graph section.
MaxData == 3
\* Lines of a generated input that mixes markers, blank and other lines.
MaxScan == 3
\* Calls of collapse made on one engine instance in the reuse specification.
MaxCalls == 2
\* Lines of a prefix handed to is_applicable.
MaxProbe == 4

(***************************************************************************)
(* Strings.                                                                *)
(***************************************************************************)
\* char::is_whitespace, on the characters that occur in the model
WhiteSpace == {" ", "\t", "\r", "\n"}

Digits == {"0", "1", "2", "3", "4", "5", "6", "7", "8", "9"}

DigitVal ==
    ("0" :> 0) @@ ("1" :> 1) @@ ("2" :> 2) @@ ("3" :> 3) @@ ("4" :> 4) @@
    ("5" :> 5) @@ ("6" :> 6) @@ ("7" :> 7) @@ ("8" :> 8) @@ ("9" :> 9)

DigitChar == <<"0", "1", "2", "3", "4", "5", "6", "7", "8", "9">>

\* s[from..] with a 1-based first index
DropTo(s, from) == SubSeq(s, from, Len(s))

\* str::starts_with
StartsWith(s, p) == Len(p) <= Len(s) /\ SubSeq(s, 1, Len(p)) = p

\* str::ends_with
EndsWith(s, p) == Len(p) <= Len(s) /\ SubSeq(s, Len(s) - Len(p) + 1, Len(s)) = p

\* str::trim_end
RECURSIVE trim_end(_)
trim_end(s) ==
    IF s # <<>> /\ s[Len(s)] \in WhiteSpace
    THEN trim_end(SubSeq(s, 1, Len(s) - 1))
    ELSE s

\* str::trim_start
RECURSIVE trim_start(_)
trim_start(s) ==
    IF s # <<>> /\ s[1] \in WhiteSpace THEN trim_start(Tail(s)) ELSE s

\* str::find(char): the 1-based place of the first c, 0 for None
FindChar(s, c) ==
    IF \E i \in 1..Len(s) : s[i] = c
    THEN CHOOSE i \in 1..Len(s) : s[i] = c /\ \A j \in 1..(i - 1) : s[j] # c
    ELSE 0

\* the 1-based place where the last occurrence of p in s starts, 0 for none
RFind(s, p) ==
    LET at == {i \in 1..(Len(s) - Len(p) + 1) : SubSeq(s, i, i + Len(p) - 1) = p}
    IN  IF at = {} THEN 0 ELSE CHOOSE i \in at : \A j \in at : j <= i

RECURSIVE DigitsValue(_)
DigitsValue(s) ==
    IF s = <<>> THEN 0
    ELSE 10 * DigitsValue(SubSeq(s, 1, Len(s) - 1)) + DigitVal[s[Len(s)]]

\* str::parse::<usize> succeeds on an optional '+' followed by one or more
\* decimal digits whose value fits a usize.  The counts of the model's inputs
\* are far below the twenty digits an overflow takes.
ParseOk(s) ==
    LET d == IF s # <<>> /\ s[1] = "+" THEN Tail(s) ELSE s
    IN  /\ d # <<>>
        /\ \A i \in 1..Len(d) : d[i] \in Digits

ParseVal(s) == DigitsValue(IF s[1] = "+" THEN Tail(s) ELSE s)

\* the decimal text of a count, as `{}` formats a usize
RECURSIVE Decimal(_)
Decimal(n) ==
    IF n < 10 THEN <<DigitChar[n + 1]>>
    ELSE Append(Decimal(n \div 10), DigitChar[(n % 10) + 1])

(***************************************************************************)
(* The constant tables of sample.rs.                                       *)
(***************************************************************************)
IGNORE_SYMBOLS == {
    <<"_","_","p","s","y","n","c","h","_","c","v","w","a","i","t">>,
    <<"_","_","s","e","l","e","c","t">>,
    <<"_","_","s","e","m","w","a","i","t","_","s","i","g","n","a","l">>,
    <<"_","_","u","l","o","c","k","_","w","a","i","t">>,
    <<"_","_","w","a","i","t","4">>,
    <<"_","_","w","o","r","k","q","_","k","e","r","n","r","e","t","u","r","n">>,
    <<"k","e","v","e","n","t">>,
    <<"m","a","c","h","_","m","s","g","_","t","r","a","p">>,
    <<"r","e","a","d">>,
    <<"s","e","m","a","p","h","o","r","e","_","w","a","i","t","_","t","r","a","p">> }

START_LINE == <<"C","a","l","l"," ","g","r","a","p","h",":">>

END_LINE == <<"T","o","t","a","l"," ","n","u","m","b","e","r"," ","i","n"," ","s","t","a","c","k">>

\* the `"    "` every data line starts with
DATA_PREFIX == <<" ", " ", " ", " ">>

IN_MARK == <<"(", "i", "n", " ">>

DYLIB == <<".", "d", "y", "l", "i", "b">>

\* The character U+0060 that format!("{}`{}", module, func) puts between a
\* module and a function.  A TLA+ string cannot hold it, so this one
\* character is written as the string "BQ".
BACKTICK == "BQ"

HexDigits == Digits \cup {"a", "b", "c", "d", "e", "f"}

\* The trailing hash rustc appends to a symbol: "::h" and sixteen hex digits.
HasRustHash(sym) ==
    /\ Len(sym) >= 19
    /\ SubSeq(sym, Len(sym) - 18, Len(sym) - 16) = <<":", ":", "h">>
    /\ \A i \in (Len(sym) - 15)..Len(sym) : sym[i] \in HexDigits

\* common::fix_partially_demangled_rust_symbol: a symbol without a trailing
\* Rust hash is returned as it is; one with a hash loses the hash.
fix_partially_demangled_rust_symbol(sym) ==
    IF HasRustHash(sym) THEN SubSeq(sym, 1, Len(sym) - 19) ELSE sym

(***************************************************************************)
(* Occurrences (crate::collapse::common): the map from folded-stack key   *)
(* to count, with the sequence of insert calls it has received.            *)
(***************************************************************************)
EmptyMap == [k \in {} |-> 0]

NewOccurrences == [map |-> EmptyMap, calls |-> <<>>]

\* Occurrences::insert: adds count to the key's value, or creates the entry
insert(occ, key, count) ==
    [map   |-> IF key \in DOMAIN occ.map
               THEN [occ.map EXCEPT ![key] = @ + count]
               ELSE [k \in (DOMAIN occ.map) \cup {key} |->
                        IF k = key THEN count ELSE occ.map[k]],
     calls |-> Append(occ.calls, <<key, count>>)]

\* one line of Occurrences::write_and_clear: key, a space, the decimal count
OutputLine(key, count) == key \o <<" ">> \o Decimal(count)

\* what Occurrences::write_and_clear writes: one line per entry, in no
\* particular order
OutputLines(occ) == {OutputLine(k, occ.map[k]) : k \in DOMAIN occ.map}

(***************************************************************************)
(* Folder::line_parts                                                      *)
(***************************************************************************)
\* line.trim_start().splitn(2, ' '): the text before the first space, and
\* whether there is a second part, and that part
SplitFirst(line) ==
    LET l  == trim_start(line)
        sp == FindChar(l, " ")
    IN  IF sp = 0
        THEN [first |-> l, more |-> FALSE, rest |-> <<>>]
        ELSE [first |-> SubSeq(l, 1, sp - 1), more |-> TRUE, rest |-> DropTo(l, sp + 1)]

\* the function name: the text before the first '(' of rest, right-trimmed
FuncOf(rest) ==
    LET open == FindChar(rest, "(")
    IN  trim_end(IF open # 0 THEN SubSeq(rest, 1, open - 1) ELSE rest)

\* the module name: of the text after the last "(in " (all of rest when it
\* has none), what precedes the first ')', without a trailing ".dylib"
ModuleOf(rest) ==
    LET at    == RFind(rest, IN_MARK)
        after == IF at = 0 THEN rest ELSE DropTo(rest, at + Len(IN_MARK))
        close == FindChar(after, ")")
        m     == IF close # 0 THEN SubSeq(after, 1, close - 1) ELSE <<>>
    IN  IF EndsWith(m, DYLIB) THEN SubSeq(m, 1, Len(m) - 6) ELSE m

\* Folder::line_parts: ok is FALSE for None
line_parts(no_modules, line) ==
    LET sp == SplitFirst(line)
    IN  IF ~sp.more
        THEN [ok |-> FALSE, time |-> <<>>, func |-> <<>>, module |-> <<>>]
        ELSE [ok     |-> TRUE,
              time   |-> trim_end(sp.first),
              func   |-> FuncOf(sp.rest),
              module |-> IF no_modules THEN <<>> ELSE ModuleOf(sp.rest)]

(***************************************************************************)
(* Folder::is_indent_char, Folder::write_stack, Folder::on_line           *)
(***************************************************************************)
is_indent_char(c) == c \in {" ", "+", "|", ":", "!"}

\* line[4..].find(|c| !is_indent_char(c)): the number of indent characters
\* before the first other character, -1 for None
IndentChars(line) ==
    LET t == DropTo(line, 5)
    IN  IF \E i \in 1..Len(t) : ~is_indent_char(t[i])
        THEN (CHOOSE i \in 1..Len(t) :
                 /\ ~is_indent_char(t[i])
                 /\ \A j \in 1..(i - 1) : is_indent_char(t[j])) - 1
        ELSE -1

\* IgnoredLeaf that looks at every frame of the stack, not at the last
IgnoredLeaf_any_frame(stack) ==
    \E i \in 1..Len(stack) : \E symbol \in IGNORE_SYMBOLS : EndsWith(stack[i], symbol)

\* IgnoredLeaf with `func == symbol` for `func.ends_with(symbol)`
IgnoredLeaf_equal(stack) ==
    /\ stack # <<>>
    /\ \E symbol \in IGNORE_SYMBOLS : stack[Len(stack)] = symbol

\* the leaf test of write_stack: the last frame ends with an ignored symbol
IgnoredLeaf(stack) ==
    /\ stack # <<>>
    /\ \E symbol \in IGNORE_SYMBOLS : EndsWith(stack[Len(stack)], symbol)

\* the key of write_stack: the frames joined by ';'
RECURSIVE JoinFrames(_)
JoinFrames(stack) ==
    IF stack = <<>> THEN <<>>
    ELSE IF Len(stack) = 1 THEN stack[1]
    ELSE JoinFrames(SubSeq(stack, 1, Len(stack) - 1)) \o <<";">> \o stack[Len(stack)]

\* write_stack that stores the count under the key, dropping what the key had
write_stack_overwrite(stack, current_samples, occ) ==
    IF IgnoredLeaf(stack) THEN occ
    ELSE LET key == JoinFrames(stack)
         IN  [map   |-> [k \in (DOMAIN occ.map) \cup {key} |->
                            IF k = key THEN current_samples ELSE occ.map[k]],
              calls |-> Append(occ.calls, <<key, current_samples>>)]

\* Folder::write_stack
write_stack(stack, current_samples, occ) ==
    IF IgnoredLeaf(stack) THEN occ
    ELSE insert(occ, JoinFrames(stack), current_samples)

\* PopN that pops nothing
PopN_none(stack, n) == stack

\* PopN that pops one frame, whatever n
PopN_one(stack, n) == SubSeq(stack, 1, Len(stack) - 1)

\* PopN with one pop too few: `0..prev_depth - depth` for `0..=prev_depth - depth`
PopN_exclusive(stack, n) ==
    SubSeq(stack, 1, Len(stack) - (IF n > 0 THEN n - 1 ELSE 0))

\* Vec::pop, n times; a pop of an empty Vec does nothing
RECURSIVE PopN(_, _)
PopN(stack, n) ==
    IF n = 0 \/ stack = <<>> THEN stack
    ELSE PopN(SubSeq(stack, 1, Len(stack) - 1), n - 1)

\* the frame pushed for a parsed line
FrameOf(parts) ==
    LET func == fix_partially_demangled_rust_symbol(parts.func)
    IN  IF parts.module = <<>> THEN func ELSE parts.module \o <<BACKTICK>> \o func

\* ShouldFlush that also holds for a skipped level
ShouldFlush_skipped(depth, prev_depth) == depth <= prev_depth \/ depth > prev_depth + 1

\* ShouldFlush with `depth < prev_depth`: a sibling does not end the leaf
ShouldFlush_strict(depth, prev_depth) == depth < prev_depth

\* `depth <= prev_depth`: the line before was a leaf
ShouldFlush(depth, prev_depth) == depth <= prev_depth

\* Folder::on_line on an engine [stack, current_samples] and the run's
\* Occurrences: the engine and the Occurrences after the line
on_line(no_modules, eng, line, occ) ==
    LET indent_chars == IndentChars(line)
        prev_depth   == Len(eng.stack)
        depth        == (indent_chars \div 2) + 1
        flush        == ShouldFlush(depth, prev_depth)
        occ1         == IF flush THEN write_stack(eng.stack, eng.current_samples, occ)
                        ELSE occ
        stack1       == IF flush THEN PopN(eng.stack, prev_depth - depth + 1)
                        ELSE eng.stack
        parts        == line_parts(no_modules, DropTo(line, 5 + indent_chars))
    IN  IF indent_chars = -1
        THEN [stack |-> eng.stack, current_samples |-> eng.current_samples, occ |-> occ]
        ELSE IF parts.ok /\ ParseOk(parts.time)
        THEN [stack           |-> Append(stack1, FrameOf(parts)),
              current_samples |-> ParseVal(parts.time),
              occ             |-> occ1]
        ELSE [stack |-> stack1, current_samples |-> eng.current_samples, occ |-> occ1]

(***************************************************************************)
(* Inputs.                                                                 *)
(***************************************************************************)
\* "Path: x": a line of the report's preamble; inside the section, a malformed line
LPreamble == <<"P","a","t","h",":"," ","x">>

\* "Call graph:": the start marker
LStart == <<"C","a","l","l"," ","g","r","a","p","h",":">>

\* "Total number in stack: 1": the end marker
LEnd == <<"T","o","t","a","l"," ","n","u","m","b","e","r"," ","i","n"," ","s","t","a","c","k",":"," ","1">>

\* __: a line of white space only
LBlank == <<" "," ">>

\* "    + |": four spaces and indentation characters only
LIndent == <<" "," "," "," ","+"," ","|">>

\* "    1 f(x)": depth 1, an argument list and no module
D10 == <<" "," "," "," ","1"," ","f","(","x",")">>

\* "     8 o": an odd number of indentation characters, depth 1
D11 == <<" "," "," "," "," ","8"," ","o">>

\* "    1 a": depth 1
D1 == <<" "," "," "," ","1"," ","a">>

\* "    2 a (in m.dylib)": depth 1, the function of D1 in module m
D2 == <<" "," "," "," ","2"," ","a"," ","(","i","n"," ","m",".","d","y","l","i","b",")">>

\* "    + 3 c(x) (in k)": depth 2, an argument list and a module
D3 == <<" "," "," "," ","+"," ","3"," ","c","(","x",")"," ","(","i","n"," ","k",")">>

\* "    + 4 read (in k)": depth 2, an ignored symbol
D4 == <<" "," "," "," ","+"," ","4"," ","r","e","a","d"," ","(","i","n"," ","k",")">>

\* "    | 5 thread": depth 2, a name that ends with an ignored symbol
D5 == <<" "," "," "," ","|"," ","5"," ","t","h","r","e","a","d">>

\* "    +   6 b": depth 3
D6 == <<" "," "," "," ","+"," "," "," ","6"," ","b">>

\* "    + 7": depth 2, no function after the count
D7 == <<" "," "," "," ","+"," ","7">>

\* "    x y": depth 1, a count that is no number
D8 == <<" "," "," "," ","x"," ","y">>

\* "    9 kevent": depth 1, an ignored symbol
D9 == <<" "," "," "," ","9"," ","k","e","v","e","n","t">>

\* "    5130 Thread_0001": the lines of the scenario of the testable properties
S1 == <<" "," "," "," ","5","1","3","0"," ","T","h","r","e","a","d","_","0","0","0","1">>

\* "    +   5130 start_wqthread"
S2 == <<" "," "," "," ","+"," "," "," ","5","1","3","0"," ","s","t","a","r","t","_","w","q","t","h","r","e","a","d">>

\* "    +     4282 _pthread_wqthread"
S3 == <<" "," "," "," ","+"," "," "," "," "," ","4","2","8","2"," ","_","p","t","h","r","e","a","d","_","w","q","t","h","r","e","a","d">>

\* "    +       4282 __doworkq_kernreturn"
S4 == <<" "," "," "," ","+"," "," "," "," "," "," "," ","4","2","8","2"," ","_","_","d","o","w","o","r","k","q","_","k","e","r","n","r","e","t","u","r","n">>

\* "    +     848 other_func"
S5 == <<" "," "," "," ","+"," "," "," "," "," ","8","4","8"," ","o","t","h","e","r","_","f","u","n","c">>

\* "> Call graph:": the start marker, but not at the start of the line
LQuotedStart == <<">"," ","C","a","l","l"," ","g","r","a","p","h",":">>

\* "> Total number in stack": the end marker, but not at the start of the line
LQuotedEnd == <<">"," ","T","o","t","a","l"," ","n","u","m","b","e","r"," ","i","n"," ","s","t","a","c","k">>

RECURSIVE SeqsUpTo(_, _)
\* the sequences of at most n elements of S
SeqsUpTo(S, n) ==
    IF n = 0 THEN {<<>>}
    ELSE LET shorter == SeqsUpTo(S, n - 1)
         IN  shorter \cup {Append(q, x) : q \in {r \in shorter : Len(r) = n - 1}, x \in S}

DataLines == {D1, D2, D3, D4, D5, D6, D7, D8, D9}

ScanLines == {LPreamble, LStart, LEnd, LBlank, D1, D3}

\* the scenario of the specification's testable properties
Scenario == <<LStart, S1, S2, S3, S4, S5, LEnd>>

\* a start marker, data lines, and the end marker or the end of the stream
SectionInputs ==
    {<<LStart>> \o ds \o e : ds \in SeqsUpTo(DataLines, MaxData), e \in {<<>>, <<LEnd>>}}

\* any mix of preamble, markers, blank and data lines
ScanInputs == SeqsUpTo(ScanLines, MaxScan)

\* the lines of a prefix given to is_applicable
ProbeLines == {LPreamble, LStart, LEnd, LQuotedStart, LQuotedEnd}

ProbeInputs == SeqsUpTo(ProbeLines, MaxProbe)

\* a section closed by the end marker, and one more line after it
TailInputs ==
    {<<LStart>> \o ds \o <<LEnd, x>> : ds \in SeqsUpTo(DataLines, MaxData - 1), x \in ScanLines}

\* the lines of an irregular section: blank, malformed, only indentation,
\* odd indentation, a skipped level, no function, a count that is no number
MixLines == {LBlank, LPreamble, LIndent, D1, D6, D7, D8, D11}

\* a start marker, a mix of lines, and the end marker or the end of the stream
MixInputs ==
    {<<LStart>> \o ds \o e : ds \in SeqsUpTo(MixLines, MaxData), e \in {<<>>, <<LEnd>>}}

\* the lines on_line does not act on: blank, malformed, only indentation
NoiseLines == {LBlank, LPreamble, LIndent}

\* a parent line and its child line, with such lines between them
NoiseInputs ==
    {<<LStart, D1>> \o ns \o <<D3>> \o e : ns \in SeqsUpTo(NoiseLines, MaxData), e \in {<<>>, <<LEnd>>}}

\* a stack of three frames, and one more data line
DeepInputs == {<<LStart, D1, D3, D6, x>> : x \in DataLines}

\* a line with an argument list and no module, before or after a data line
ArgInputs == {<<LStart, D10>>} \cup {<<LStart, x, D10>> : x \in DataLines}
                 \cup {<<LStart, D10, x>> : x \in DataLines}

\* the inputs given to an engine that is called once
AllInputs ==
    SectionInputs \cup TailInputs \cup ScanInputs \cup MixInputs \cup NoiseInputs
        \cup DeepInputs \cup ArgInputs \cup {Scenario}

(***************************************************************************)
(* The state.                                                              *)
(***************************************************************************)
VARIABLES
    no_modules,       \* Folder.opt.no_modules
    stack,            \* Folder.stack
    current_samples,  \* Folder.current_samples
    pc,               \* where collapse is: "idle", "header", "data", "write",
                      \* "returned"
    reader,           \* the lines the reader has not yet given
    occurrences,      \* the Occurrences of the run
    out,              \* the lines the run has written to its writer
    ret,              \* the last return of collapse: "none", "ok", "err"
    calls_left,       \* the calls of collapse the caller may still make
    input0,           \* the lines the reader held when collapse was called
    stack0,           \* Folder.stack when collapse was called
    samples0,         \* Folder.current_samples when collapse was called
    handed,           \* the lines given to on_line in this run
    ending,           \* how the run left its loops
    app_pc,           \* where is_applicable is: "idle", "loop", "returned"
    app_input,        \* the prefix is_applicable was called with
    app_rest,         \* the lines of the prefix not yet read
    found_start,      \* the local found_start of is_applicable
    app_ret           \* its return: "none", "None", "Some(true)", "Some(false)"

folder_vars == <<no_modules, stack, current_samples>>

run_vars == <<pc, reader, occurrences, out, ret, calls_left,
              input0, stack0, samples0, handed, ending>>

app_vars == <<app_pc, app_input, app_rest, found_start, app_ret>>

vars == <<folder_vars, run_vars, app_vars>>

\* Folder::default() and Folder::from(options)
FolderInit ==
    /\ no_modules \in BOOLEAN
    /\ stack = <<>>
    /\ current_samples = 0

RunInit ==
    /\ pc = "idle"
    /\ reader = <<>>
    /\ occurrences = NewOccurrences
    /\ out = {}
    /\ ret = "none"
    /\ input0 = <<>>
    /\ stack0 = <<>>
    /\ samples0 = 0
    /\ handed = <<>>
    /\ ending = "none"

AppInit ==
    /\ app_pc = "idle"
    /\ app_input = <<>>
    /\ app_rest = <<>>
    /\ found_start = FALSE
    /\ app_ret = "none"

\* a fresh engine that is given one input
Init ==
    /\ FolderInit /\ RunInit /\ AppInit
    /\ calls_left = 1

\* a fresh engine that is given up to MaxCalls inputs, one after another
InitReuse ==
    /\ FolderInit /\ RunInit /\ AppInit
    /\ calls_left = MaxCalls

(***************************************************************************)
(* Collapse::collapse, one action per step of its two loops.               *)
(***************************************************************************)
\* the branch of the data loop a line takes, after line.trim_end()
LineKind(raw) ==
    LET line == trim_end(raw)
    IN  IF line = <<>> THEN "blank"
        ELSE IF StartsWith(line, DATA_PREFIX) THEN "data"
        ELSE IF StartsWith(line, END_LINE) THEN "end"
        ELSE "other"

\* the caller calls collapse with a reader over inp and a new writer
Call(inp) ==
    /\ pc = "idle"
    /\ app_pc = "idle"
    /\ calls_left > 0
    /\ calls_left' = calls_left - 1
    /\ pc' = "header"
    /\ reader' = inp
    /\ input0' = inp
    /\ stack0' = stack
    /\ samples0' = current_samples
    /\ occurrences' = NewOccurrences
    /\ out' = {}
    /\ ret' = "none"
    /\ handed' = <<>>
    /\ ending' = "none"
    /\ UNCHANGED <<folder_vars, app_vars>>

\* read_line returns 0 in the header loop: return Ok(()) at once
HeaderEOF ==
    /\ pc = "header"
    /\ reader = <<>>
    /\ pc' = "returned"
    /\ ret' = "ok"
    /\ ending' = "no_start"
    /\ UNCHANGED <<folder_vars, reader, occurrences, out, calls_left,
                   input0, stack0, samples0, handed, app_vars>>

\* HeaderSkip that gives the lines that start with four spaces to on_line
HeaderSkip_on_line ==
    /\ pc = "header"
    /\ reader # <<>>
    /\ ~StartsWith(Head(reader), START_LINE)
    /\ LET line == trim_end(Head(reader))
           r    == on_line(no_modules,
                           [stack |-> stack, current_samples |-> current_samples],
                           line, occurrences)
       IN  IF LineKind(Head(reader)) = "data"
           THEN /\ stack' = r.stack
                /\ current_samples' = r.current_samples
                /\ occurrences' = r.occ
                /\ handed' = Append(handed, line)
           ELSE UNCHANGED <<stack, current_samples, occurrences, handed>>
    /\ reader' = Tail(reader)
    /\ UNCHANGED <<no_modules, pc, out, ret, calls_left,
                   input0, stack0, samples0, ending, app_vars>>

\* a header line that does not start with START_LINE is dropped
HeaderSkip ==
    /\ pc = "header"
    /\ reader # <<>>
    /\ ~StartsWith(Head(reader), START_LINE)
    /\ reader' = Tail(reader)
    /\ UNCHANGED <<folder_vars, pc, occurrences, out, ret, calls_left,
                   input0, stack0, samples0, handed, ending, app_vars>>

\* the line that starts with START_LINE ends the header loop; the run's
\* Occurrences is created
HeaderStart ==
    /\ pc = "header"
    /\ reader # <<>>
    /\ StartsWith(Head(reader), START_LINE)
    /\ reader' = Tail(reader)
    /\ pc' = "data"
    /\ occurrences' = NewOccurrences
    /\ UNCHANGED <<folder_vars, out, ret, calls_left,
                   input0, stack0, samples0, handed, ending, app_vars>>

\* read_line fails (the `?` of either loop): collapse returns the error
ReadError ==
    /\ pc \in {"header", "data"}
    /\ pc' = "returned"
    /\ ret' = "err"
    /\ ending' = "read_error"
    /\ UNCHANGED <<folder_vars, reader, occurrences, out, calls_left,
                   input0, stack0, samples0, handed, app_vars>>

\* DataEOF that leaves the loop without write_stack
DataEOF_no_flush ==
    /\ pc = "data"
    /\ reader = <<>>
    /\ pc' = "write"
    /\ ending' = "eof"
    /\ UNCHANGED <<folder_vars, reader, occurrences, out, ret, calls_left,
                   input0, stack0, samples0, handed, app_vars>>

\* read_line returns 0 in the data loop: the pending stack is written
DataEOF ==
    /\ pc = "data"
    /\ reader = <<>>
    /\ occurrences' = write_stack(stack, current_samples, occurrences)
    /\ pc' = "write"
    /\ ending' = "eof"
    /\ UNCHANGED <<folder_vars, reader, out, ret, calls_left,
                   input0, stack0, samples0, handed, app_vars>>

\* DataBlank that writes the stack, as the end of the section does
DataBlank_flush ==
    /\ pc = "data"
    /\ reader # <<>>
    /\ LineKind(Head(reader)) = "blank"
    /\ occurrences' = write_stack(stack, current_samples, occurrences)
    /\ reader' = Tail(reader)
    /\ UNCHANGED <<folder_vars, pc, out, ret, calls_left,
                   input0, stack0, samples0, handed, ending, app_vars>>

\* an empty line after trim_end: continue
DataBlank ==
    /\ pc = "data"
    /\ reader # <<>>
    /\ LineKind(Head(reader)) = "blank"
    /\ reader' = Tail(reader)
    /\ UNCHANGED <<folder_vars, pc, occurrences, out, ret, calls_left,
                   input0, stack0, samples0, handed, ending, app_vars>>

\* a line that starts with four spaces goes to on_line
DataOnLine ==
    /\ pc = "data"
    /\ reader # <<>>
    /\ LineKind(Head(reader)) = "data"
    /\ LET line == trim_end(Head(reader))
           r    == on_line(no_modules,
                           [stack |-> stack, current_samples |-> current_samples],
                           line, occurrences)
       IN  /\ stack' = r.stack
           /\ current_samples' = r.current_samples
           /\ occurrences' = r.occ
           /\ handed' = Append(handed, line)
    /\ reader' = Tail(reader)
    /\ UNCHANGED <<no_modules, pc, out, ret, calls_left,
                   input0, stack0, samples0, ending, app_vars>>

\* DataEnd without the break: the stack is written and the loop goes on
DataEnd_no_break ==
    /\ pc = "data"
    /\ reader # <<>>
    /\ LineKind(Head(reader)) = "end"
    /\ occurrences' = write_stack(stack, current_samples, occurrences)
    /\ reader' = Tail(reader)
    /\ UNCHANGED <<folder_vars, pc, out, ret, calls_left,
                   input0, stack0, samples0, handed, ending, app_vars>>

\* a line that starts with END_LINE: the pending stack is written, and the
\* loop is left
DataEnd ==
    /\ pc = "data"
    /\ reader # <<>>
    /\ LineKind(Head(reader)) = "end"
    /\ occurrences' = write_stack(stack, current_samples, occurrences)
    /\ reader' = Tail(reader)
    /\ pc' = "write"
    /\ ending' = "end_marker"
    /\ UNCHANGED <<folder_vars, out, ret, calls_left,
                   input0, stack0, samples0, handed, app_vars>>

\* DataMalformed that leaves the loop: a malformed line ends the section
DataMalformed_break ==
    /\ pc = "data"
    /\ reader # <<>>
    /\ LineKind(Head(reader)) = "other"
    /\ reader' = Tail(reader)
    /\ pc' = "write"
    /\ ending' = "end_marker"
    /\ UNCHANGED <<folder_vars, occurrences, out, ret, calls_left,
                   input0, stack0, samples0, handed, app_vars>>

\* any other line is reported and dropped
DataMalformed ==
    /\ pc = "data"
    /\ reader # <<>>
    /\ LineKind(Head(reader)) = "other"
    /\ reader' = Tail(reader)
    /\ UNCHANGED <<folder_vars, pc, occurrences, out, ret, calls_left,
                   input0, stack0, samples0, handed, ending, app_vars>>

\* write_and_clear succeeds; the state is reset; Ok(())
WriteResults ==
    /\ pc = "write"
    /\ out' = OutputLines(occurrences)
    /\ occurrences' = [occurrences EXCEPT !.map = EmptyMap]
    /\ current_samples' = 0
    /\ stack' = <<>>
    /\ pc' = "returned"
    /\ ret' = "ok"
    /\ UNCHANGED <<no_modules, reader, calls_left,
                   input0, stack0, samples0, handed, ending, app_vars>>

\* write_and_clear fails after writing some of the lines (the `?` of the
\* write): collapse returns the error before the reset
WriteError ==
    /\ pc = "write"
    /\ out' \in SUBSET OutputLines(occurrences)
    /\ pc' = "returned"
    /\ ret' = "err"
    /\ UNCHANGED <<folder_vars, reader, occurrences, calls_left,
                   input0, stack0, samples0, handed, ending, app_vars>>

\* the caller is done with the reader, the writer and the result of the call
Drop ==
    /\ pc = "returned"
    /\ pc' = "idle"
    /\ reader' = <<>>
    /\ occurrences' = NewOccurrences
    /\ out' = {}
    /\ ret' = "none"
    /\ input0' = <<>>
    /\ stack0' = <<>>
    /\ samples0' = 0
    /\ handed' = <<>>
    /\ ending' = "none"
    /\ UNCHANGED <<folder_vars, calls_left, app_vars>>

\* the steps of a run in progress
Step ==
    \/ HeaderEOF
    \/ HeaderSkip
    \/ HeaderStart
    \/ ReadError
    \/ DataEOF
    \/ DataBlank
    \/ DataOnLine
    \/ DataEnd
    \/ DataMalformed
    \/ WriteResults
    \/ WriteError
    \/ Drop

\* the caller may call when no call is in progress and it has calls left
MayCall == pc = "idle" /\ app_pc = "idle" /\ calls_left > 0

Next ==
    \/ MayCall /\ \E inp \in AllInputs : Call(inp)
    \/ Step

NextReuse ==
    \/ MayCall /\ \E inp \in ScanInputs : Call(inp)
    \/ Step

Spec == Init /\ [][Next]_vars

\* the inputs of the runs whose return is checked: irregular sections,
\* sections with a line after their end marker, inputs without start marker
LiveInputs == MixInputs \cup TailInputs \cup ScanInputs

NextLive ==
    \/ MayCall /\ \E inp \in LiveInputs : Call(inp)
    \/ Step

\* collapse runs to its return: read_line on a finite input does not block
SpecLive == Init /\ [][NextLive]_vars /\ WF_vars(Step)

SpecReuse == InitReuse /\ [][NextReuse]_vars

TypeOK ==
    /\ pc \in {"idle", "header", "data", "write", "returned"}
    /\ ret \in {"none", "ok", "err"}
    /\ current_samples \in Nat

(***************************************************************************)
(* Collapse::is_applicable, one action per step of its loop.  Its reader   *)
(* is the bytes of a &str, so read_line cannot fail and the Some(false) of *)
(* the Err branch is never returned.                                       *)
(***************************************************************************)
\* a fresh engine whose caller only asks whether inputs are applicable
InitApplicable ==
    /\ FolderInit /\ RunInit /\ AppInit
    /\ calls_left = 0

\* the caller calls is_applicable with the prefix
AppCall(prefix) ==
    /\ pc = "idle"
    /\ app_pc = "idle"
    /\ app_pc' = "loop"
    /\ app_input' = prefix
    /\ app_rest' = prefix
    /\ found_start' = FALSE
    /\ app_ret' = "none"
    /\ UNCHANGED <<folder_vars, run_vars>>

\* read_line returns 0: break, and None
AppEOF ==
    /\ app_pc = "loop"
    /\ app_rest = <<>>
    /\ app_pc' = "returned"
    /\ app_ret' = "None"
    /\ UNCHANGED <<folder_vars, run_vars, app_input, app_rest, found_start>>

\* a line that starts with START_LINE
AppStart ==
    /\ app_pc = "loop"
    /\ app_rest # <<>>
    /\ StartsWith(Head(app_rest), START_LINE)
    /\ found_start' = TRUE
    /\ app_rest' = Tail(app_rest)
    /\ UNCHANGED <<folder_vars, run_vars, app_pc, app_input, app_ret>>

\* AppEnd that answers Some(true) whatever found_start is
AppEnd_always_true ==
    /\ app_pc = "loop"
    /\ app_rest # <<>>
    /\ ~StartsWith(Head(app_rest), START_LINE)
    /\ StartsWith(Head(app_rest), END_LINE)
    /\ app_ret' = "Some(true)"
    /\ app_pc' = "returned"
    /\ app_rest' = Tail(app_rest)
    /\ UNCHANGED <<folder_vars, run_vars, app_input, found_start>>

\* a line that starts with END_LINE: Some(found_start)
AppEnd ==
    /\ app_pc = "loop"
    /\ app_rest # <<>>
    /\ ~StartsWith(Head(app_rest), START_LINE)
    /\ StartsWith(Head(app_rest), END_LINE)
    /\ app_ret' = IF found_start THEN "Some(true)" ELSE "Some(false)"
    /\ app_pc' = "returned"
    /\ app_rest' = Tail(app_rest)
    /\ UNCHANGED <<folder_vars, run_vars, app_input, found_start>>

\* any other line
AppOther ==
    /\ app_pc = "loop"
    /\ app_rest # <<>>
    /\ ~StartsWith(Head(app_rest), START_LINE)
    /\ ~StartsWith(Head(app_rest), END_LINE)
    /\ app_rest' = Tail(app_rest)
    /\ UNCHANGED <<folder_vars, run_vars, app_pc, app_input, found_start, app_ret>>

\* the caller is done with the answer
AppDrop ==
    /\ app_pc = "returned"
    /\ app_pc' = "idle"
    /\ app_input' = <<>>
    /\ app_rest' = <<>>
    /\ found_start' = FALSE
    /\ app_ret' = "none"
    /\ UNCHANGED <<folder_vars, run_vars>>

\* the caller may ask when nothing is in progress
MayAsk == pc = "idle" /\ app_pc = "idle"

NextApplicable ==
    \/ MayAsk /\ \E prefix \in ProbeInputs : AppCall(prefix)
    \/ AppEOF
    \/ AppStart
    \/ AppEnd
    \/ AppOther
    \/ AppDrop

SpecApplicable == InitApplicable /\ [][NextApplicable]_vars

(***************************************************************************)
(* Collapse::collapse as a function of the engine and of the whole input,  *)
(* for a reader and a writer that do not fail.                             *)
(***************************************************************************)
\* the header loop: the lines after the first that starts with START_LINE;
\* found is FALSE when the stream ends first
RECURSIVE header_loop(_)
header_loop(lines) ==
    IF lines = <<>> THEN [found |-> FALSE, rest |-> <<>>]
    ELSE IF StartsWith(Head(lines), START_LINE) THEN [found |-> TRUE, rest |-> Tail(lines)]
    ELSE header_loop(Tail(lines))

\* the data loop: the engine and the Occurrences when the loop is left
RECURSIVE data_loop(_, _, _, _)
data_loop(nm, eng, occ, lines) ==
    IF lines = <<>>
    THEN [eng |-> eng, occ |-> write_stack(eng.stack, eng.current_samples, occ)]
    ELSE LET kind == LineKind(Head(lines))
             r    == on_line(nm, eng, trim_end(Head(lines)), occ)
         IN  CASE kind = "blank" -> data_loop(nm, eng, occ, Tail(lines))
               [] kind = "data"  ->
                    data_loop(nm, [stack |-> r.stack, current_samples |-> r.current_samples],
                              r.occ, Tail(lines))
               [] kind = "end"   ->
                    [eng |-> eng, occ |-> write_stack(eng.stack, eng.current_samples, occ)]
               [] OTHER          -> data_loop(nm, eng, occ, Tail(lines))

\* collapse: the engine after the call, what was written and what was inserted
collapse(nm, eng, input) ==
    LET h == header_loop(input)
        d == data_loop(nm, eng, NewOccurrences, h.rest)
    IN  IF ~h.found
        THEN [eng |-> eng, out |-> {}, calls |-> <<>>]
        ELSE [eng   |-> [stack |-> <<>>, current_samples |-> 0],
              out   |-> OutputLines(d.occ),
              calls |-> d.occ.calls]

\* Folder::default(), and Folder::from(options), before any call
NewFolder == [stack |-> <<>>, current_samples |-> 0]

\* the engine as it was when the run in progress was called
Folder0 == [stack |-> stack0, current_samples |-> samples0]

\* collapse has returned Ok(()) from a run that read all its lines
Returned == pc = "returned" /\ ret = "ok"

\* the steps of collapse agree with collapse as a function
StepsAgree ==
    Returned =>
        LET c == collapse(no_modules, Folder0, input0)
        IN  /\ out = c.out
            /\ occurrences.calls = c.calls
            /\ stack = c.eng.stack
            /\ current_samples = c.eng.current_samples

(***************************************************************************)
(* C1.                                                                     *)
(***************************************************************************)
ScenarioKey1 == <<"T","h","r","e","a","d","_","0","0","0","1",";","s","t","a","r","t","_","w","q","t","h","r","e","a","d",";","_","p","t","h","r","e","a","d","_","w","q","t","h","r","e","a","d",";","_","_","d","o","w","o","r","k","q","_","k","e","r","n","r","e","t","u","r","n">>

ScenarioKey2 == <<"T","h","r","e","a","d","_","0","0","0","1",";","s","t","a","r","t","_","w","q","t","h","r","e","a","d",";","_","p","t","h","r","e","a","d","_","w","q","t","h","r","e","a","d",";","o","t","h","e","r","_","f","u","n","c">>

ScenarioSpecKey1 == <<"s","t","a","r","t","_","w","q","t","h","r","e","a","d",";","_","p","t","h","r","e","a","d","_","w","q","t","h","r","e","a","d",";","_","_","d","o","w","o","r","k","q","_","k","e","r","n","r","e","t","u","r","n">>

ScenarioSpecKey2 == <<"s","t","a","r","t","_","w","q","t","h","r","e","a","d",";","o","t","h","e","r","_","f","u","n","c">>

\* C1, as the specification states it: for the scenario (the start marker,
\* the five data lines with indent runs 0, 4, 6, 8 and 6, the end marker) a
\* new engine writes exactly "start_wqthread;_pthread_wqthread;
\* __doworkq_kernreturn 4282" and "start_wqthread;other_func 848".
C1_AsStated ==
    (Returned /\ input0 = Scenario) =>
        out = {OutputLine(ScenarioSpecKey1, 4282), OutputLine(ScenarioSpecKey2, 848)}

\* C1, amended: for the scenario a new engine writes exactly
\* "Thread_0001;start_wqthread;_pthread_wqthread;__doworkq_kernreturn 4282"
\* and "Thread_0001;start_wqthread;_pthread_wqthread;other_func 848": the
\* thread line is the first frame of both paths, and other_func, whose
\* indent run of 6 decodes to depth 4, replaces only the frame at depth 4.
C1_Scenario ==
    (Returned /\ input0 = Scenario) =>
        out = {OutputLine(ScenarioKey1, 4282), OutputLine(ScenarioKey2, 848)}

\* the scenario has been collapsed
C1_Witness == Returned /\ input0 = Scenario /\ Cardinality(out) = 2

(***************************************************************************)
(* The call-graph section of an input, and the tree its indentation        *)
(* decodes to.                                                             *)
(***************************************************************************)
\* the lines of s before the first line of the kind "end"
RECURSIVE UpToEnd(_)
UpToEnd(s) ==
    IF s = <<>> \/ LineKind(Head(s)) = "end" THEN <<>>
    ELSE <<Head(s)>> \o UpToEnd(Tail(s))

IsDataLine(l) == LineKind(l) = "data"

RECURSIVE TrimAll(_)
TrimAll(s) == IF s = <<>> THEN <<>> ELSE <<trim_end(Head(s))>> \o TrimAll(Tail(s))

\* the input has a line that starts with START_LINE
HasStart(input) == \E i \in 1..Len(input) : StartsWith(input[i], START_LINE)

\* the data lines of the input's call-graph section, right-trimmed
SectionData(input) ==
    TrimAll(SelectSeq(UpToEnd(header_loop(input).rest), IsDataLine))

\* the section is closed by an end marker
HasEnd(input) ==
    \E i \in 1..Len(header_loop(input).rest) : LineKind(header_loop(input).rest[i]) = "end"

\* the decoded depth of a data line
DepthOf(l) == (IndentChars(l) \div 2) + 1

PartsOf(nm, l) == line_parts(nm, DropTo(l, 5 + IndentChars(l)))

\* the data line has fields and a numeric count
Parses(nm, l) ==
    /\ IndentChars(l) # -1
    /\ PartsOf(nm, l).ok
    /\ ParseOk(PartsOf(nm, l).time)

\* every data line parses, the first has depth 1, none is more than one
\* level deeper than the line before it
WellFormed(nm, ds) ==
    /\ ds # <<>>
    /\ \A i \in 1..Len(ds) : Parses(nm, ds[i])
    /\ DepthOf(ds[1]) = 1
    /\ \A i \in 2..Len(ds) : DepthOf(ds[i]) <= DepthOf(ds[i - 1]) + 1

\* the line that is the ancestor at depth k of line i (line i itself at its
\* own depth): the last line up to i of that depth
AncestorAt(ds, i, k) ==
    CHOOSE j \in 1..i : DepthOf(ds[j]) = k /\ \A m \in (j + 1)..i : DepthOf(ds[m]) # k

\* the root-to-leaf frame path of line i
PathAt(nm, ds, i) ==
    [k \in 1..DepthOf(ds[i]) |-> FrameOf(PartsOf(nm, ds[AncestorAt(ds, i, k)]))]

\* line i is followed by a line of equal or shallower depth, or by the end
IsLeaf(ds, i) == i = Len(ds) \/ DepthOf(ds[i + 1]) <= DepthOf(ds[i])

IgnoredFrame(frame) == \E symbol \in IGNORE_SYMBOLS : EndsWith(frame, symbol)

\* the (key, count) pairs of the leaves of the tree that are not ignored, in
\* the order of the lines
RECURSIVE LeafPairs(_, _, _)
LeafPairs(nm, ds, i) ==
    IF i > Len(ds) THEN <<>>
    ELSE (IF IsLeaf(ds, i) /\ ~IgnoredFrame(FrameOf(PartsOf(nm, ds[i])))
          THEN <<<<JoinFrames(PathAt(nm, ds, i)), ParseVal(PartsOf(nm, ds[i]).time)>>>>
          ELSE <<>>) \o LeafPairs(nm, ds, i + 1)

Range(s) == {s[i] : i \in 1..Len(s)}

\* the multiset of the elements of a sequence
BagOfSeq(s) == [x \in Range(s) |-> Cardinality({i \in 1..Len(s) : s[i] = x})]

(***************************************************************************)
(* C2.                                                                     *)
(***************************************************************************)
\* C2: for a well-formed call-graph section, the multiset of (key, count)
\* pairs inserted into the Occurrences is the multiset of (root-to-leaf path
\* joined by ';', the leaf's own count) over the leaf lines of the decoded
\* tree whose leaf frame is not ignored; no other line is inserted.
C2_LeafPaths ==
    (Returned /\ HasStart(input0) /\ WellFormed(no_modules, SectionData(input0))) =>
        BagOfSeq(occurrences.calls) =
            BagOfSeq(LeafPairs(no_modules, SectionData(input0), 1))

\* a well-formed section of three lines with an inner line, two leaves
\* inserted and so one line that is no leaf
C2_Witness ==
    /\ Returned /\ HasStart(input0)
    /\ WellFormed(no_modules, SectionData(input0))
    /\ Len(SectionData(input0)) = 3
    /\ Len(occurrences.calls) = 2
    /\ \E i \in 1..3 : ~IsLeaf(SectionData(input0), i)

(***************************************************************************)
(* C3.                                                                     *)
(***************************************************************************)
RECURSIVE SumFor(_, _)
\* the sum of the counts inserted under the key
SumFor(calls, key) ==
    IF calls = <<>> THEN 0
    ELSE (IF Head(calls)[1] = key THEN Head(calls)[2] ELSE 0) + SumFor(Tail(calls), key)

KeysOf(calls) == {calls[i][1] : i \in 1..Len(calls)}

\* C3: within one run the count of a key is the sum of the counts of all the
\* flushes of that key, a later flush never replaces an earlier one, and
\* each distinct key is written as exactly one output line, with that sum.
C3_Accumulates ==
    /\ pc \in {"data", "write"} =>
          /\ DOMAIN occurrences.map = KeysOf(occurrences.calls)
          /\ \A key \in DOMAIN occurrences.map :
                occurrences.map[key] = SumFor(occurrences.calls, key)
    /\ (Returned /\ HasStart(input0)) =>
          /\ out = {OutputLine(key, SumFor(occurrences.calls, key)) :
                       key \in KeysOf(occurrences.calls)}
          /\ Cardinality(out) = Cardinality(KeysOf(occurrences.calls))

\* a run has flushed one key twice, with counts that are not zero
C3_Witness ==
    /\ Returned
    /\ \E i, j \in 1..Len(occurrences.calls) :
          /\ i < j
          /\ occurrences.calls[i][1] = occurrences.calls[j][1]
          /\ occurrences.calls[i][2] > 0
          /\ occurrences.calls[j][2] > 0

(***************************************************************************)
(* C4.                                                                     *)
(***************************************************************************)
\* the place of the last c in s, 0 for none
LastIndexOf(s, c) ==
    IF \E i \in 1..Len(s) : s[i] = c
    THEN CHOOSE i \in 1..Len(s) : s[i] = c /\ \A j \in (i + 1)..Len(s) : s[j] # c
    ELSE 0

\* the last frame of a key: the text after its last ';'
LeafOfKey(key) == DropTo(key, LastIndexOf(key, ";") + 1)

\* the key of an output line: the text before its last space
KeyOfLine(l) == SubSeq(l, 1, LastIndexOf(l, " ") - 1)

\* the count of an output line: the number after its last space
CountOfLine(l) == DigitsValue(DropTo(l, LastIndexOf(l, " ") + 1))

\* C4: no key whose leaf frame ends with an ignored symbol is ever inserted
\* or written, whatever triggers the flush; the filter looks at the leaf
\* only, so the path of a leaf that is not ignored is inserted also when an
\* inner frame of it ends with an ignored symbol.
C4_IgnoreLeafOnly ==
    /\ \A i \in 1..Len(occurrences.calls) : ~IgnoredFrame(LeafOfKey(occurrences.calls[i][1]))
    /\ \A key \in DOMAIN occurrences.map : ~IgnoredFrame(LeafOfKey(key))
    /\ \A l \in out : ~IgnoredFrame(LeafOfKey(KeyOfLine(l)))
    /\ (Returned /\ HasStart(input0) /\ WellFormed(no_modules, SectionData(input0))) =>
          LET ds == SectionData(input0)
          IN  \A i \in 1..Len(ds) :
                 (IsLeaf(ds, i) /\ ~IgnoredFrame(FrameOf(PartsOf(no_modules, ds[i]))))
                    => JoinFrames(PathAt(no_modules, ds, i)) \in KeysOf(occurrences.calls)

\* at the end of a section the pending path has an ignored leaf and is not
\* inserted, while a path with an ignored inner frame has been
C4_Witness ==
    /\ pc = "write"
    /\ IgnoredLeaf(stack)
    /\ WellFormed(no_modules, SectionData(input0))
    /\ \E key \in DOMAIN occurrences.map :
          \E i \in 1..Len(key) :
             key[i] = ";" /\ IgnoredFrame(SubSeq(key, 1, i - 1))

(***************************************************************************)
(* C5.                                                                     *)
(***************************************************************************)
\* the place of the first line of the prefix that starts with END_LINE
FirstEnd(prefix) ==
    IF \E i \in 1..Len(prefix) : StartsWith(prefix[i], END_LINE)
    THEN CHOOSE i \in 1..Len(prefix) :
            /\ StartsWith(prefix[i], END_LINE)
            /\ \A j \in 1..(i - 1) : ~StartsWith(prefix[j], END_LINE)
    ELSE 0

StartBefore(prefix, n) == \E j \in 1..(n - 1) : StartsWith(prefix[j], START_LINE)

\* is_applicable has returned
AppReturned == app_pc = "returned"

\* C5: is_applicable returns Some(false) exactly when the first line that
\* starts with the end marker has no line that starts with the start marker
\* before it, Some(true) exactly when it has one, and None exactly when no
\* line of the prefix starts with the end marker.
C5_Applicable ==
    AppReturned =>
        LET e == FirstEnd(app_input)
        IN  /\ app_ret = "Some(false)" <=> (e # 0 /\ ~StartBefore(app_input, e))
            /\ app_ret = "Some(true)" <=> (e # 0 /\ StartBefore(app_input, e))
            /\ app_ret = "None" <=> e = 0

\* None for a prefix that has a start marker, and lines that only contain
\* the markers
C5_Witness ==
    /\ AppReturned
    /\ app_ret = "None"
    /\ StartBefore(app_input, Len(app_input) + 1)
    /\ \E i \in 1..Len(app_input) : app_input[i] = LQuotedEnd

(***************************************************************************)
(* C6.                                                                     *)
(***************************************************************************)
\* C6: after every run that returns Ok the stack is empty and the count is
\* 0, and what the run wrote is what a new engine of the same configuration
\* writes for that input alone.
C6_RunsIndependent ==
    Returned =>
        /\ stack = <<>>
        /\ current_samples = 0
        /\ out = collapse(no_modules, NewFolder, input0).out

\* the runs that are called on an engine with an empty stack and a count of
\* 0 are independent: what C6 says fails only after a run that returned an
\* error with frames on the stack
CleanRunsIndependent ==
    (Returned /\ stack0 = <<>> /\ samples0 = 0) =>
        /\ stack = <<>>
        /\ current_samples = 0
        /\ out = collapse(no_modules, NewFolder, input0).out

(***************************************************************************)
(* C7.                                                                     *)
(***************************************************************************)
\* a frame without its module: the text after the first backtick
StripFrame(frame) == DropTo(frame, FindChar(frame, BACKTICK) + 1)

\* a key with every frame stripped of its module
RECURSIVE StripKey(_)
StripKey(key) ==
    LET semi == FindChar(key, ";")
    IN  IF semi = 0 THEN StripFrame(key)
        ELSE StripFrame(SubSeq(key, 1, semi - 1)) \o <<";">> \o StripKey(DropTo(key, semi + 1))

RECURSIVE SumCounts(_)
\* the sum of the counts of a set of output lines
SumCounts(lines) ==
    IF lines = {} THEN 0
    ELSE LET l == CHOOSE x \in lines : TRUE
         IN  CountOfLine(l) + SumCounts(lines \ {l})

\* output lines with the modules stripped from their keys, and the counts
\* of the keys that become equal summed
StripLines(lines) ==
    {OutputLine(k, SumCounts({l \in lines : StripKey(KeyOfLine(l)) = k})) :
        k \in {StripKey(KeyOfLine(l)) : l \in lines}}

\* C7: a run with no_modules writes what the run with modules writes once
\* the module is stripped from every frame and the counts of the keys that
\* become equal are summed; so both runs drop the same paths.
C7_NoModules ==
    Returned =>
        IF no_modules
        THEN out = StripLines(collapse(FALSE, Folder0, input0).out)
        ELSE StripLines(out) = collapse(TRUE, Folder0, input0).out

\* a run without modules whose input names modules: two keys of the run
\* with modules have become one
C7_Witness ==
    /\ Returned
    /\ no_modules
    /\ out # {}
    /\ Cardinality(collapse(FALSE, Folder0, input0).out) > Cardinality(out)

(***************************************************************************)
(* C8.                                                                     *)
(***************************************************************************)
\* C8: when the stream ends before a line that starts with the start marker
\* is read, collapse returns Ok, writes nothing, inserts nothing and leaves
\* the stack and the count as they were; no line before the start marker is
\* given to on_line.
C8_NoStartMarker ==
    /\ (pc = "returned" /\ ~HasStart(input0) /\ ending # "read_error") =>
          /\ ret = "ok"
          /\ out = {}
          /\ occurrences = NewOccurrences
          /\ stack = stack0
          /\ current_samples = samples0
          /\ handed = <<>>
    /\ pc = "header" =>
          /\ handed = <<>>
          /\ occurrences = NewOccurrences
          /\ stack = stack0
          /\ current_samples = samples0

\* an engine that holds frames is given an input with data lines and no
\* start marker, and holds the same frames afterwards
C8_Witness ==
    /\ Returned
    /\ ~HasStart(input0)
    /\ \E i \in 1..Len(input0) : LineKind(input0[i]) = "data"
    /\ stack # <<>>

(***************************************************************************)
(* C9.                                                                     *)
(***************************************************************************)
\* C9: when the stream ends inside the section, the pending path is flushed
\* and all is written: the output is that of the same input with a line
\* "Total number in stack" appended.
C9_EndOfStream ==
    (Returned /\ HasStart(input0) /\ ~HasEnd(input0)) =>
        out = collapse(no_modules, Folder0, input0 \o <<END_LINE>>).out

\* a section without end marker whose last flush is that of the end of the
\* stream
C9_Witness ==
    /\ Returned /\ HasStart(input0) /\ ~HasEnd(input0)
    /\ Len(occurrences.calls) >= 2
    /\ Cardinality(out) >= 2

(***************************************************************************)
(* C10.                                                                    *)
(***************************************************************************)
\* the place in the input of the line that ends the section
EndIndex(input) ==
    LET rest == header_loop(input).rest
    IN  (Len(input) - Len(rest)) +
        (CHOOSE i \in 1..Len(rest) :
            LineKind(rest[i]) = "end" /\ \A j \in 1..(i - 1) : LineKind(rest[j]) # "end")

\* C10: the section ends at the first line that starts with the end marker:
\* the lines after it are not read, none of them is given to on_line, and
\* the output is that of the input cut after that line.
C10_FirstEndMarker ==
    (Returned /\ HasStart(input0) /\ HasEnd(input0)) =>
        LET k == EndIndex(input0)
        IN  /\ reader = DropTo(input0, k + 1)
            /\ handed = SectionData(SubSeq(input0, 1, k))
            /\ out = collapse(no_modules, Folder0, SubSeq(input0, 1, k)).out

\* a data line follows the end marker of a section that has written a path
C10_Witness ==
    /\ Returned /\ HasStart(input0) /\ HasEnd(input0)
    /\ \E i \in 1..Len(reader) : LineKind(reader[i]) = "data"
    /\ handed # <<>>
    /\ out # {}

(***************************************************************************)
(* C11.                                                                    *)
(***************************************************************************)
RECURSIVE feed(_, _, _, _)
\* on_line applied to the lines, one after the other
feed(nm, eng, occ, lines) ==
    IF lines = <<>>
    THEN [stack |-> eng.stack, current_samples |-> eng.current_samples, occ |-> occ]
    ELSE LET r == on_line(nm, eng, Head(lines), occ)
         IN  feed(nm, [stack |-> r.stack, current_samples |-> r.current_samples],
                  r.occ, Tail(lines))

\* the engine and the Occurrences after the lines given to on_line so far
Fed == feed(no_modules, Folder0, NewOccurrences, handed)

\* C11: no line aborts a run: once the start marker is read the run comes to
\* its return; when no read or write fails, every line of the section that
\* starts with four spaces was given to on_line, there was one flush after
\* the last of them, one write_and_clear of all that was inserted, and the
\* reset.
C11_NoLineAborts ==
    /\ (pc = "data") ~> (pc = "returned")
    /\ [](pc = "data" => ret = "none")
    /\ []((Returned /\ HasStart(input0)) =>
            /\ handed = SectionData(input0)
            /\ ending \in {"eof", "end_marker"}
            /\ occurrences.calls =
                 write_stack(Fed.stack, Fed.current_samples, Fed.occ).calls
            /\ out = OutputLines(write_stack(Fed.stack, Fed.current_samples, Fed.occ))
            /\ stack = <<>>
            /\ current_samples = 0)

\* a run over a section with a blank line, a malformed line, a line of
\* indentation only and a line without function has returned
C11_Witness ==
    /\ Returned
    /\ HasStart(input0)
    /\ \E i \in 1..Len(input0) : LineKind(input0[i]) = "other" /\ i > 1
    /\ \E i \in 1..Len(input0) : input0[i] \in {LIndent, D7, D8, D11}
    /\ \E i \in 1..Len(input0) : input0[i] = D6
    /\ out # {}


(***************************************************************************)
(* C12.                                                                    *)
(***************************************************************************)
\* the line that DataOnLine gives to on_line
NextLine == trim_end(Head(reader))

\* the line has something after its indentation, and line_parts or the parse
\* of its count fails
Unparsed(nm, l) == IndentChars(l) # -1 /\ ~Parses(nm, l)

\* C12: a data line without a function after the count, or with a count that
\* is no number, is skipped entirely: the stack and the count after the line
\* are those before it, whatever the depth of the line.
C12_UnparsedSkipped ==
    [][(DataOnLine /\ Unparsed(no_modules, NextLine)) =>
          (stack' = stack /\ current_samples' = current_samples)]_vars

\* a line that does not parse and is deeper than the stack is skipped
\* entirely: C12 fails only in the branch that flushes and pops
UnparsedDeeperSkipped ==
    [][(DataOnLine /\ Unparsed(no_modules, NextLine) /\ DepthOf(NextLine) > Len(stack)) =>
          (stack' = stack /\ current_samples' = current_samples /\ occurrences' = occurrences)]_vars


(***************************************************************************)
(* C13.                                                                    *)
(***************************************************************************)
RECURSIVE counts_of(_, _, _)
\* for each frame of the stack after the lines, the count that was read on
\* the line that pushed the frame (cs: the counts for the stack so far)
counts_of(nm, cs, lines) ==
    IF lines = <<>> THEN cs
    ELSE LET l     == Head(lines)
             depth == DepthOf(l)
             cs1   == IF IndentChars(l) # -1 /\ ShouldFlush(depth, Len(cs))
                      THEN PopN(cs, Len(cs) - depth + 1)
                      ELSE cs
             cs2   == IF Parses(nm, l) THEN Append(cs1, ParseVal(PartsOf(nm, l).time))
                      ELSE cs1
         IN  counts_of(nm, IF IndentChars(l) = -1 THEN cs ELSE cs2, Tail(lines))

\* the counts of the lines that pushed the frames now on the stack
PushedCounts == counts_of(no_modules, <<>>, handed)

\* C13: whenever the stack is not empty, current_samples is the count read
\* on the line that pushed the frame on top of the stack; so every insert
\* carries the count of the line of the key's last frame.
C13_CountOfTopFrame ==
    (pc \in {"data", "write"} /\ stack0 = <<>> /\ stack # <<>>) =>
        /\ Len(PushedCounts) = Len(stack)
        /\ current_samples = PushedCounts[Len(stack)]

\* when every line given to on_line so far parses or has only indentation,
\* the count is that of the top frame: C13 fails only after an unparsed
\* line has popped frames
ParsedCountOfTopFrame ==
    (/\ pc \in {"data", "write"} /\ stack0 = <<>> /\ stack # <<>>
     /\ \A i \in 1..Len(handed) : ~Unparsed(no_modules, handed[i])) =>
        /\ Len(PushedCounts) = Len(stack)
        /\ current_samples = PushedCounts[Len(stack)]


(***************************************************************************)
(* C14.                                                                    *)
(***************************************************************************)
\* the text of a data line after its count and the space that follows it
RestOf(l) == SplitFirst(trim_start(DropTo(l, 5 + IndentChars(l)))).rest

\* the module as the specification defines it: the text between the last
\* "(in " and the next ')', without a trailing ".dylib"; empty when the text
\* has no "(in " or no ')' after it
SpecifiedModule(rest) ==
    LET at    == RFind(rest, IN_MARK)
        after == DropTo(rest, at + Len(IN_MARK))
        close == FindChar(after, ")")
        m     == SubSeq(after, 1, close - 1)
    IN  IF at = 0 \/ close = 0 THEN <<>>
        ELSE IF EndsWith(m, DYLIB) THEN SubSeq(m, 1, Len(m) - Len(DYLIB)) ELSE m

\* the frame of a line with the module of the specification
SpecifiedFrame(l) ==
    LET func == fix_partially_demangled_rust_symbol(FuncOf(RestOf(l)))
        m    == SpecifiedModule(RestOf(l))
    IN  IF m = <<>> THEN func ELSE m \o <<BACKTICK>> \o func

\* C14: with modules, the frame pushed for a line carries the text between
\* the last "(in " and the next ')', less a trailing ".dylib", as its
\* module; for a line with no "(in " the module is empty and the frame is
\* the bare function name.
C14_ModuleExtraction ==
    [][(DataOnLine /\ ~no_modules /\ Parses(no_modules, NextLine)) =>
          /\ line_parts(no_modules, DropTo(NextLine, 5 + IndentChars(NextLine))).module
               = SpecifiedModule(RestOf(NextLine))
          /\ stack'[Len(stack')] = SpecifiedFrame(NextLine)]_vars

\* for the lines that hold "(in " the module and the frame are those of the
\* specification: C14 fails only for a line with a ')' and no "(in "
ModuleOfMarkedLines ==
    [][(/\ DataOnLine /\ ~no_modules /\ Parses(no_modules, NextLine)
        /\ RFind(RestOf(NextLine), IN_MARK) # 0) =>
          stack'[Len(stack')] = SpecifiedFrame(NextLine)]_vars


(***************************************************************************)
(* C15, C16.                                                               *)
(***************************************************************************)
\* the engine and the Occurrences before the last line given to on_line
Before == feed(no_modules, Folder0, NewOccurrences, SubSeq(handed, 1, Len(handed) - 1))

\* the last line given to on_line
LastHanded == handed[Len(handed)]

\* on_line has been called in the run and the run is still in its data loop
AfterOnLine == pc = "data" /\ handed # <<>>

\* C15: a line given to on_line makes the stack at most one frame longer;
\* it makes it one frame longer only when its depth exceeds the length before
\* and the line parses; it makes it shorter only when its depth is at most
\* the length before.
C15_StackLength ==
    [][DataOnLine =>
          /\ Len(stack') <= Len(stack) + 1
          /\ (Len(stack') = Len(stack) + 1) =>
                (DepthOf(NextLine) > Len(stack) /\ Parses(no_modules, NextLine))
          /\ (Len(stack') < Len(stack)) =>
                (IndentChars(NextLine) # -1 /\ DepthOf(NextLine) <= Len(stack))]_vars

\* the last line has made a stack of two or more frames shorter
C15_Witness ==
    /\ AfterOnLine
    /\ Len(Before.stack) >= 2
    /\ Len(stack) < Len(Before.stack)

\* C16: a line whose depth exceeds the stack length by more than one makes
\* no flush and pops no frame; when it parses, one frame is pushed, so the
\* length grows by one and does not become the depth.
C16_SkippedLevel ==
    [][(DataOnLine /\ IndentChars(NextLine) # -1 /\ DepthOf(NextLine) > Len(stack) + 1) =>
          /\ occurrences' = occurrences
          /\ stack' = IF Parses(no_modules, NextLine)
                      THEN Append(stack, FrameOf(PartsOf(no_modules, NextLine)))
                      ELSE stack
          /\ Parses(no_modules, NextLine) => Len(stack') < DepthOf(NextLine)]_vars

\* the last line skipped a level above a stack that held a frame, and parsed
C16_Witness ==
    /\ AfterOnLine
    /\ Before.stack # <<>>
    /\ DepthOf(LastHanded) > Len(Before.stack) + 1
    /\ Parses(no_modules, LastHanded)
    /\ Len(stack) = Len(Before.stack) + 1
    /\ occurrences = Before.occ


(***************************************************************************)
(* C17.                                                                    *)
(***************************************************************************)
\* a line of the section that is blank, or starts neither with four spaces
\* nor with the end marker, or has only indentation after its four spaces
Noise(raw) ==
    \/ LineKind(raw) \in {"blank", "other"}
    \/ LineKind(raw) = "data" /\ IndentChars(trim_end(raw)) = -1

NotNoise(raw) == ~Noise(raw)

\* the input with those lines deleted from its section
WithoutNoise(input) ==
    LET rest == header_loop(input).rest
    IN  SubSeq(input, 1, Len(input) - Len(rest)) \o SelectSeq(rest, NotNoise)

\* C17: in the section a blank line, a line that starts neither with four
\* spaces nor with the end marker, and a four-space line of indentation only
\* leave the stack, the count and the Occurrences unchanged; the output of an
\* input is that of the input with these lines deleted.
C17_NoiseIgnored ==
    /\ []((Returned /\ HasStart(input0)) =>
            out = collapse(no_modules, Folder0, WithoutNoise(input0)).out)
    /\ [][(/\ pc = "data" /\ reader # <<>> /\ Noise(Head(reader))
           /\ (DataBlank \/ DataMalformed \/ DataOnLine)) =>
             UNCHANGED <<stack, current_samples, occurrences>>]_vars

\* a line of each of the three kinds stood between a parent line and its
\* child line, and the path of the two was written
C17_Witness ==
    /\ Returned
    /\ \A n \in NoiseLines : \E i \in 3..Len(input0) : input0[i] = n
    /\ WithoutNoise(input0) # input0
    /\ \E l \in out : FindChar(l, ";") # 0


(***************************************************************************)
(* C18, C19.                                                               *)
(***************************************************************************)
\* C18: every insert is made from a stack of one frame or more, the final
\* flush of a section without parsed data line included; no key inserted
\* and no key of an output line is empty.
C18_NoEmptyKey ==
    /\ [][(Len(occurrences'.calls) > Len(occurrences.calls)) => stack # <<>>]_vars
    /\ [](\A i \in 1..Len(occurrences.calls) : occurrences.calls[i][1] # <<>>)
    /\ [](\A l \in out : KeyOfLine(l) # <<>>)

\* when the stack is not empty at the end of the section, every insert of
\* the run was made from a stack of one frame or more: C18 fails only in the
\* final flush of an empty stack
NoEmptyKeyBeforeEnd ==
    [][(Len(occurrences'.calls) > Len(occurrences.calls) /\ pc' = "data") => stack # <<>>]_vars

\* C19: when a run has returned an I/O error, the stack is empty and the
\* count is 0, so the next run on the engine starts from an empty stack and
\* a count of 0.
C19_ErrorResets ==
    /\ (pc = "returned" /\ ret = "err") => (stack = <<>> /\ current_samples = 0)
    /\ (pc \in {"header", "data", "write", "returned"}) => (stack0 = <<>> /\ samples0 = 0)


(***************************************************************************)
(* C20.                                                                    *)
(***************************************************************************)
\* C20: in the branch of on_line that flushes and pops (depth d at most the
\* stack length p) d is 1 or more, p is 1 or more so that the stack written
\* is not empty, p - d + 1 frames are popped, which is 1 or more and at most
\* p, and what is left before the push are the first d - 1 frames of the
\* stack, in their order.
C20_FlushAndPop ==
    [][(DataOnLine /\ IndentChars(NextLine) # -1 /\ DepthOf(NextLine) <= Len(stack)) =>
          LET d    == DepthOf(NextLine)
              p    == Len(stack)
              kept == SubSeq(stack, 1, d - 1)
          IN  /\ d >= 1
              /\ p >= 1
              /\ p - d >= 0
              /\ p - d + 1 <= p
              /\ occurrences' = write_stack(stack, current_samples, occurrences)
              /\ stack' = IF Parses(no_modules, NextLine)
                          THEN Append(kept, FrameOf(PartsOf(no_modules, NextLine)))
                          ELSE kept]_vars

\* the last line popped two frames or more and left a frame under the one
\* it pushed
C20_Witness ==
    /\ AfterOnLine
    /\ IndentChars(LastHanded) # -1
    /\ DepthOf(LastHanded) >= 2
    /\ Len(Before.stack) - DepthOf(LastHanded) + 1 >= 2
    /\ Parses(no_modules, LastHanded)
    /\ Len(stack) = DepthOf(LastHanded)


=============================================================================
